---- MODULE Spec2Model ----
(***************************************************************************)
(* Model of riemann_solvers/eos/thermodynamic_state.py (the classes        *)
(* ThermodynamicState1D and ThermodynamicState2D) and of the constructor   *)
(* of ShockTube1D in riemann_solvers/simulations/shock_tube_sim_1d.py.     *)
(*                                                                         *)
(* Python floats are modelled as exact rationals <<n, d>> in lowest terms  *)
(* with d > 0: every expression of the source is evaluated with the        *)
(* real-number meaning of its operators, in the source's order.  Rounding  *)
(* of IEEE doubles is not represented, so an equality established here is  *)
(* an equality of the real-valued expressions (the "floating-point         *)
(* tolerance" reading of the specification).  A division of Python floats  *)
(* by zero raises ZeroDivisionError; that is modelled as an outcome.       *)
(***************************************************************************)
EXTENDS Integers, Sequences, FiniteSets, TLC

(***************************************************************************)
(* Rational arithmetic standing for Python float arithmetic.               *)
(***************************************************************************)
Abs(a) == IF a < 0 THEN -a ELSE a

RECURSIVE Gcd(_, _)
Gcd(a, b) == IF b = 0 THEN a ELSE Gcd(b, a % b)

\* the rational n/d in lowest terms with a positive denominator (d # 0)
Rat(n, d) ==
  LET g == Gcd(Abs(n), Abs(d))
      s == IF d < 0 THEN -1 ELSE 1
  IN  << (s * n) \div g, (s * d) \div g >>

Zero == Rat(0, 1)
One  == Rat(1, 1)
Half == Rat(1, 2)

Add(x, y) == Rat(x[1] * y[2] + y[1] * x[2], x[2] * y[2])
Sub(x, y) == Rat(x[1] * y[2] - y[1] * x[2], x[2] * y[2])
Mul(x, y) == Rat(x[1] * y[1], x[2] * y[2])
\* x / y for y # Zero (the callers test the divisor first, as Python does)
Div(x, y) == Rat(x[1] * y[2], x[2] * y[1])
Sq(x)     == Mul(x, x)
Lt(x, y)  == x[1] * y[2] < y[1] * x[2]
Le(x, y)  == x[1] * y[2] <= y[1] * x[2]

(***************************************************************************)
(* Bounds and input sets.                                                  *)
(***************************************************************************)
MaxUpdates == 2

Pressures      == { Rat(-1, 1), Rat(1, 1) }
Densities      == { Rat(-1, 1), Zero, Rat(1, 1), Rat(2, 1) }
Velocities     == { Zero, Rat(3, 4) }
Gammas         == { Rat(1, 2), One, Rat(7, 5) }
\* flux tuples handed to update_states: (density, momentum, energy) in 1D,
\* (density, momentum x, momentum y, energy) in 2D
Fluxes1D ==
  { << Zero, Zero, Zero >>,
    << Zero, Zero, Rat(1, 10) >>,
    << Zero, Zero, Rat(-3, 1) >>,
    << Rat(-1, 1), Rat(1, 1), Zero >>,
    << Rat(-2, 1), Zero, Zero >>,
    << Rat(1, 1), Rat(1, 1), Rat(1, 10) >> }
Fluxes2D ==
  { << Zero, Zero, Zero, Zero >>,
    << Zero, Zero, Zero, Rat(1, 10) >>,
    << Zero, Zero, Zero, Rat(-3, 1) >>,
    << Rat(-1, 1), Rat(1, 1), Zero, Zero >>,
    << Rat(-2, 1), Zero, Rat(1, 1), Zero >>,
    << Rat(1, 1), Rat(1, 1), Rat(1, 1), Rat(1, 10) >> }

(***************************************************************************)
(* ThermodynamicState1D                                                    *)
(***************************************************************************)
NoCell == [dim |-> 0]

\* __init__: the instance, or the exception that leaves no instance
ThermodynamicState1D(pressure, density, velocity, gamma) ==
  IF Mul(density, Sub(gamma, One)) = Zero
  THEN [outcome |-> "ZeroDivisionError", state |-> NoCell]
  ELSE [outcome |-> "ok",
        state |-> [dim   |-> 1,
                   gamma |-> gamma,
                   p     |-> pressure,
                   rho   |-> density,
                   u     |-> velocity,
                   mom   |-> Mul(velocity, density),
                   e_kin |-> Mul(Mul(Mul(Half, density), velocity), velocity),
                   e_int |-> Div(pressure, Mul(density, Sub(gamma, One)))]]

(***************************************************************************)
(* Faulty variants of update_states, each one slip away from the source.   *)
(***************************************************************************)
\* the pressure is not recomputed (line 53 left out)
update_states_1D_stale_p(s, density_flux, momentum_flux, e_flux) ==
  LET e_tot_initial == Add(Add(Mul(s.rho, s.e_int), s.e_kin), e_flux)
      rho == Add(s.rho, density_flux)
      mom == Add(s.mom, momentum_flux)
  IN  IF rho = Zero
      THEN [outcome |-> "ZeroDivisionError",
            state |-> [s EXCEPT !.rho = rho, !.mom = mom]]
      ELSE LET u     == Div(mom, rho)
               e_kin == Mul(Mul(Half, rho), Sq(u))
               e_int == Div(Sub(e_tot_initial, e_kin), rho)
           IN  [outcome |-> "ok",
                state |-> [s EXCEPT !.rho = rho, !.mom = mom, !.u = u,
                                    !.e_kin = e_kin, !.e_int = e_int]]

\* the total energy is taken after the density was updated (lines 43, 45
\* swapped)
update_states_1D_late_total(s, density_flux, momentum_flux, e_flux) ==
  LET rho == Add(s.rho, density_flux)
      mom == Add(s.mom, momentum_flux)
      e_tot_initial == Add(Add(Mul(rho, s.e_int), s.e_kin), e_flux)
  IN  IF rho = Zero
      THEN [outcome |-> "ZeroDivisionError",
            state |-> [s EXCEPT !.rho = rho, !.mom = mom]]
      ELSE LET u     == Div(mom, rho)
               e_kin == Mul(Mul(Half, rho), Sq(u))
               e_int == Div(Sub(e_tot_initial, e_kin), rho)
               p     == Mul(Mul(rho, e_int), Sub(s.gamma, One))
           IN  [outcome |-> "ok",
                state |-> [s EXCEPT !.rho = rho, !.mom = mom, !.u = u,
                                    !.e_kin = e_kin, !.e_int = e_int,
                                    !.p = p]]

\* the kinetic energy loses its factor 0.5 (line 50)
update_states_1D_no_half(s, density_flux, momentum_flux, e_flux) ==
  LET e_tot_initial == Add(Add(Mul(s.rho, s.e_int), s.e_kin), e_flux)
      rho == Add(s.rho, density_flux)
      mom == Add(s.mom, momentum_flux)
  IN  IF rho = Zero
      THEN [outcome |-> "ZeroDivisionError",
            state |-> [s EXCEPT !.rho = rho, !.mom = mom]]
      ELSE LET u     == Div(mom, rho)
               e_kin == Mul(rho, Sq(u))
               e_int == Div(Sub(e_tot_initial, e_kin), rho)
               p     == Mul(Mul(rho, e_int), Sub(s.gamma, One))
           IN  [outcome |-> "ok",
                state |-> [s EXCEPT !.rho = rho, !.mom = mom, !.u = u,
                                    !.e_kin = e_kin, !.e_int = e_int,
                                    !.p = p]]

\* update_states: the fields after the call and how the call ended.  The
\* division self.mom / self.rho raises after rho and mom were assigned.
update_states_1D(s, density_flux, momentum_flux, e_flux) ==
  LET e_tot_initial == Add(Add(Mul(s.rho, s.e_int), s.e_kin), e_flux)
      rho == Add(s.rho, density_flux)
      mom == Add(s.mom, momentum_flux)
  IN  IF rho = Zero
      THEN [outcome |-> "ZeroDivisionError",
            state |-> [s EXCEPT !.rho = rho, !.mom = mom]]
      ELSE LET u     == Div(mom, rho)
               e_kin == Mul(Mul(Half, rho), Sq(u))
               e_int == Div(Sub(e_tot_initial, e_kin), rho)
               p     == Mul(Mul(rho, e_int), Sub(s.gamma, One))
           IN  [outcome |-> "ok",
                state |-> [s EXCEPT !.rho = rho, !.mom = mom, !.u = u,
                                    !.e_kin = e_kin, !.e_int = e_int,
                                    !.p = p]]

(***************************************************************************)
(* ThermodynamicState2D                                                    *)
(***************************************************************************)
ThermodynamicState2D(pressure, density, u, v, gamma) ==
  IF Mul(density, Sub(gamma, One)) = Zero
  THEN [outcome |-> "ZeroDivisionError", state |-> NoCell]
  ELSE [outcome |-> "ok",
        state |-> [dim   |-> 2,
                   gamma |-> gamma,
                   p     |-> pressure,
                   rho   |-> density,
                   u     |-> u,
                   v     |-> v,
                   mom_x |-> Mul(u, density),
                   mom_y |-> Mul(v, density),
                   e_kin |-> Add(Mul(Mul(Mul(Half, density), u), u),
                                 Mul(Mul(Mul(Half, density), v), v)),
                   e_int |-> Div(pressure, Mul(density, Sub(gamma, One)))]]

\* the energy flux is not added to the total energy (line 92)
update_states_2D_no_e_flux(s, density_flux, momentum_flux_x, momentum_flux_y, e_flux) ==
  LET e_tot_initial == Add(Mul(s.rho, s.e_int), s.e_kin)
      rho   == Add(s.rho, density_flux)
      mom_x == Add(s.mom_x, momentum_flux_x)
      mom_y == Add(s.mom_y, momentum_flux_y)
  IN  IF rho = Zero
      THEN [outcome |-> "ZeroDivisionError",
            state |-> [s EXCEPT !.rho = rho, !.mom_x = mom_x, !.mom_y = mom_y]]
      ELSE LET u     == Div(mom_x, rho)
               v     == Div(mom_y, rho)
               e_kin == Add(Mul(Mul(Half, rho), Sq(u)),
                            Mul(Mul(Half, rho), Sq(v)))
               e_int == Div(Sub(e_tot_initial, e_kin), rho)
               p     == Mul(Mul(rho, e_int), Sub(s.gamma, One))
           IN  [outcome |-> "ok",
                state |-> [s EXCEPT !.rho = rho, !.mom_x = mom_x,
                                    !.mom_y = mom_y, !.u = u, !.v = v,
                                    !.e_kin = e_kin, !.e_int = e_int,
                                    !.p = p]]

\* the velocity is taken from the momentum before its update (lines 95-96
\* after 98-99)
update_states_2D_old_mom(s, density_flux, momentum_flux_x, momentum_flux_y, e_flux) ==
  LET e_tot_initial == Add(Add(Mul(s.rho, s.e_int), s.e_kin), e_flux)
      rho   == Add(s.rho, density_flux)
      mom_x == Add(s.mom_x, momentum_flux_x)
      mom_y == Add(s.mom_y, momentum_flux_y)
  IN  IF rho = Zero
      THEN [outcome |-> "ZeroDivisionError",
            state |-> [s EXCEPT !.rho = rho, !.mom_x = mom_x, !.mom_y = mom_y]]
      ELSE LET u     == Div(s.mom_x, rho)
               v     == Div(s.mom_y, rho)
               e_kin == Add(Mul(Mul(Half, rho), Sq(u)),
                            Mul(Mul(Half, rho), Sq(v)))
               e_int == Div(Sub(e_tot_initial, e_kin), rho)
               p     == Mul(Mul(rho, e_int), Sub(s.gamma, One))
           IN  [outcome |-> "ok",
                state |-> [s EXCEPT !.rho = rho, !.mom_x = mom_x,
                                    !.mom_y = mom_y, !.u = u, !.v = v,
                                    !.e_kin = e_kin, !.e_int = e_int,
                                    !.p = p]]

update_states_2D(s, density_flux, momentum_flux_x, momentum_flux_y, e_flux) ==
  LET e_tot_initial == Add(Add(Mul(s.rho, s.e_int), s.e_kin), e_flux)
      rho   == Add(s.rho, density_flux)
      mom_x == Add(s.mom_x, momentum_flux_x)
      mom_y == Add(s.mom_y, momentum_flux_y)
  IN  IF rho = Zero
      THEN [outcome |-> "ZeroDivisionError",
            state |-> [s EXCEPT !.rho = rho, !.mom_x = mom_x, !.mom_y = mom_y]]
      ELSE LET u     == Div(mom_x, rho)
               v     == Div(mom_y, rho)
               e_kin == Add(Mul(Mul(Half, rho), Sq(u)),
                            Mul(Mul(Half, rho), Sq(v)))
               e_int == Div(Sub(e_tot_initial, e_kin), rho)
               p     == Mul(Mul(rho, e_int), Sub(s.gamma, One))
           IN  [outcome |-> "ok",
                state |-> [s EXCEPT !.rho = rho, !.mom_x = mom_x,
                                    !.mom_y = mom_y, !.u = u, !.v = v,
                                    !.e_kin = e_kin, !.e_int = e_int,
                                    !.p = p]]

(***************************************************************************)
(* sound_speed (the same body in both classes): np.sqrt(gamma * p / rho).  *)
(* The quotient of Python floats raises on rho = 0; np.sqrt of a negative  *)
(* number returns nan (numpy only warns).  A real root is kept symbolic,   *)
(* as the radicand it is the root of.                                      *)
(***************************************************************************)
sound_speed(s) ==
  IF s.rho = Zero
  THEN [outcome |-> "ZeroDivisionError", ret |-> "none", radicand |-> Zero]
  ELSE LET radicand == Div(Mul(s.gamma, s.p), s.rho)
       IN  IF Lt(radicand, Zero)
           THEN [outcome |-> "ok", ret |-> "nan", radicand |-> radicand]
           ELSE [outcome |-> "ok", ret |-> "sqrt", radicand |-> radicand]

(***************************************************************************)
(* ShockTube1D.__init__                                                    *)
(***************************************************************************)
N == 100

\* np.linspace(0.005, 0.995, 100): cell centre i (1-based here) in real terms
linspace(i) == Rat(5 + 10 * (i - 1), 1000)

NoTube == [is_initialised |-> FALSE]

\* the membrane test with <= in place of < (line 46)
ShockTube1D_le(left_state, right_state, membrane_location, final_time, CFL, flux_calculator) ==
  IF ~ (Lt(Zero, membrane_location) /\ Lt(membrane_location, One))
  THEN [outcome |-> "AssertionError", sim |-> NoTube]
  ELSE IF ~ (Lt(Zero, CFL) /\ Lt(CFL, One))
  THEN [outcome |-> "AssertionError", sim |-> NoTube]
  ELSE
    LET x == [i \in 1..N |-> linspace(i)]
        pick(i) == IF Le(x[i], membrane_location) THEN left_state
                                                  ELSE right_state
    IN  [outcome |-> "ok",
         sim |-> [x                 |-> x,
                  dx                |-> Mul(x[1], Rat(2, 1)),
                  final_time        |-> final_time,
                  CFL               |-> CFL,
                  flux_calculator   |-> flux_calculator,
                  densities         |-> [i \in 1..N |-> pick(i).rho],
                  pressures         |-> [i \in 1..N |-> pick(i).p],
                  vel_x             |-> [i \in 1..N |-> pick(i).u],
                  internal_energies |-> [i \in 1..N |-> pick(i).e_int],
                  gamma             |-> left_state.gamma,
                  boundary_functions |->
                    [X_LOW  |-> "transmissive_boundary_condition",
                     X_HIGH |-> "transmissive_boundary_condition"],
                  is_initialised    |-> TRUE]]

\* inputs of the constructor
ShockTube1D(left_state, right_state, membrane_location, final_time, CFL, flux_calculator) ==
  IF ~ (Lt(Zero, membrane_location) /\ Lt(membrane_location, One))
  THEN [outcome |-> "AssertionError", sim |-> NoTube]
  ELSE IF ~ (Lt(Zero, CFL) /\ Lt(CFL, One))
  THEN [outcome |-> "AssertionError", sim |-> NoTube]
  ELSE
    LET x == [i \in 1..N |-> linspace(i)]
        pick(i) == IF Lt(x[i], membrane_location) THEN left_state
                                                  ELSE right_state
    IN  [outcome |-> "ok",
         sim |-> [x                 |-> x,
                  dx                |-> Mul(x[1], Rat(2, 1)),
                  final_time        |-> final_time,
                  CFL               |-> CFL,
                  flux_calculator   |-> flux_calculator,
                  densities         |-> [i \in 1..N |-> pick(i).rho],
                  pressures         |-> [i \in 1..N |-> pick(i).p],
                  vel_x             |-> [i \in 1..N |-> pick(i).u],
                  internal_energies |-> [i \in 1..N |-> pick(i).e_int],
                  gamma             |-> left_state.gamma,
                  boundary_functions |->
                    [X_LOW  |-> "transmissive_boundary_condition",
                     X_HIGH |-> "transmissive_boundary_condition"],
                  is_initialised    |-> TRUE]]

\* inputs of the constructor
\* (membrane_location, final_time, CFL, flux_calculator); 61/200 = 0.305 and
\* 199/200 = 0.995 are centres of cells, 1/1000 lies below the first centre
TubeConfigs ==
  { << Rat(3, 10),   Rat(1, 4),  Rat(9, 20), "GODUNOV" >>,
    << Rat(61, 200), Rat(1, 4),  Rat(9, 20), "MUSCL" >>,
    << Rat(1, 1000), Rat(1, 4),  Rat(9, 20), "HLLC" >>,
    << Rat(199, 200), Rat(1, 4), Rat(9, 20), "RANDOM_CHOICE" >>,
    << Zero,         Rat(1, 4),  Rat(9, 20), "GODUNOV" >>,
    << One,          Rat(1, 4),  Rat(9, 20), "GODUNOV" >>,
    << Rat(3, 10),   Rat(1, 4),  One,        "GODUNOV" >>,
    << Rat(3, 10),   Rat(-1, 1), Rat(9, 20), "GODUNOV" >> }
RightStates ==
  { ThermodynamicState1D(Rat(1, 10), Rat(1, 8), Zero, g).state :
      g \in { Rat(7, 5), Rat(5, 3) } }

(***************************************************************************)
(* State: one cell object (1D or 2D) driven by a caller, the record of the *)
(* last call, and the simulation built from the cell.  origin, total and   *)
(* raised remember the cell as constructed, the sum of the fluxes applied  *)
(* since, and whether an update_states call raised.  The caller builds the *)
(* simulation last, as the driver example() does: nothing is called on the *)
(* cell after ShockTube1D.                                                 *)
(***************************************************************************)
VARIABLES cell, call, nupd, origin, total, raised, tube

vars == << cell, call, nupd, origin, total, raised, tube >>

ZeroFlux == << Zero, Zero, Zero, Zero >>

AddFlux(f, g) == [k \in 1..4 |-> Add(f[k], g[k])]

Init ==
  /\ cell = NoCell
  /\ call = [op |-> "none"]
  /\ nupd = 0
  /\ origin = NoCell
  /\ total = ZeroFlux
  /\ raised = FALSE
  /\ tube = NoTube

Construct1D ==
  /\ cell = NoCell
  /\ call.op = "none"
  /\ \E pressure \in Pressures, density \in Densities,
        velocity \in Velocities, gamma \in Gammas :
       LET r == ThermodynamicState1D(pressure, density, velocity, gamma)
       IN  /\ cell' = r.state
           /\ origin' = r.state
           /\ call' = [op |-> "ThermodynamicState1D", outcome |-> r.outcome,
                       pressure |-> pressure, density |-> density,
                       gamma |-> gamma]
  /\ UNCHANGED << nupd, total, raised, tube >>

Construct2D ==
  /\ cell = NoCell
  /\ call.op = "none"
  /\ \E pressure \in Pressures, density \in Densities,
        u \in Velocities, v \in Velocities, gamma \in Gammas :
       LET r == ThermodynamicState2D(pressure, density, u, v, gamma)
       IN  /\ cell' = r.state
           /\ origin' = r.state
           /\ call' = [op |-> "ThermodynamicState2D", outcome |-> r.outcome,
                       pressure |-> pressure, density |-> density,
                       gamma |-> gamma]
  /\ UNCHANGED << nupd, total, raised, tube >>

Update1D ==
  /\ cell.dim = 1
  /\ call.op # "ShockTube1D"
  /\ nupd < MaxUpdates
  /\ \E fl \in Fluxes1D :
       LET r == update_states_1D(cell, fl[1], fl[2], fl[3])
           f == << fl[1], fl[2], Zero, fl[3] >>
       IN  /\ cell' = r.state
           /\ call' = [op |-> "update_states", outcome |-> r.outcome,
                       pre |-> cell, flux |-> f]
           /\ total' = AddFlux(total, f)
           /\ raised' = (raised \/ r.outcome # "ok")
  /\ nupd' = nupd + 1
  /\ UNCHANGED << origin, tube >>

Update2D ==
  /\ cell.dim = 2
  /\ nupd < MaxUpdates
  /\ \E f \in Fluxes2D :
       LET r == update_states_2D(cell, f[1], f[2], f[3], f[4])
       IN  /\ cell' = r.state
           /\ call' = [op |-> "update_states", outcome |-> r.outcome,
                       pre |-> cell, flux |-> f]
           /\ total' = AddFlux(total, f)
           /\ raised' = (raised \/ r.outcome # "ok")
  /\ nupd' = nupd + 1
  /\ UNCHANGED << origin, tube >>

SoundSpeed ==
  /\ cell.dim \in {1, 2}
  /\ call.op \notin {"sound_speed", "ShockTube1D"}
  /\ LET r == sound_speed(cell)
     IN  call' = [op |-> "sound_speed", outcome |-> r.outcome,
                  ret |-> r.ret, radicand |-> r.radicand]
  /\ UNCHANGED << cell, nupd, origin, total, raised, tube >>

ConstructShockTube ==
  /\ cell.dim = 1
  /\ call.op # "ShockTube1D"
  /\ tube = NoTube
  /\ \E right_state \in RightStates, c \in TubeConfigs :
       LET r == ShockTube1D(cell, right_state, c[1], c[2], c[3], c[4])
       IN  /\ tube' = r.sim
           /\ call' = [op |-> "ShockTube1D", outcome |-> r.outcome,
                       left_state |-> cell, right_state |-> right_state,
                       membrane_location |-> c[1],
                       final_time |-> c[2], CFL |-> c[3]]
  /\ UNCHANGED << cell, nupd, origin, total, raised >>

Next ==
  \/ Construct1D
  \/ Construct2D
  \/ Update1D
  \/ Update2D
  \/ SoundSpeed
  \/ ConstructShockTube

Spec == Init /\ [][Next]_vars

(***************************************************************************)
(* Vocabulary of the properties.                                           *)
(***************************************************************************)
IsCell(s) == s.dim \in {1, 2}

\* the constructor arguments the specification calls valid
ValidState(s) == Lt(Zero, s.rho) /\ Lt(Zero, s.p) /\ Lt(One, s.gamma)

\* the cell was validly constructed and no update_states call raised since
Regular == IsCell(origin) /\ ValidState(origin) /\ ~ raised

Updated == call.op = "update_states" /\ call.outcome = "ok"

TotalEnergy(s) == Add(Mul(s.rho, s.e_int), s.e_kin)

KineticEnergy(s) ==
  IF s.dim = 1
  THEN Mul(Mul(Half, s.rho), Sq(s.u))
  ELSE Add(Mul(Mul(Half, s.rho), Sq(s.u)), Mul(Mul(Half, s.rho), Sq(s.v)))

IdealGas(s) == s.p = Mul(Mul(s.rho, s.e_int), Sub(s.gamma, One))

MomentumIsRhoVelocity(s) ==
  IF s.dim = 1
  THEN s.mom = Mul(s.rho, s.u)
  ELSE s.mom_x = Mul(s.rho, s.u) /\ s.mom_y = Mul(s.rho, s.v)

\* velocity, momentum, density, kinetic energy and gamma agree in s and t
SameMechanics(s, t) ==
  /\ s.dim = t.dim
  /\ s.rho = t.rho
  /\ s.gamma = t.gamma
  /\ s.e_kin = t.e_kin
  /\ s.u = t.u
  /\ IF s.dim = 1
     THEN s.mom = t.mom
     ELSE s.v = t.v /\ s.mom_x = t.mom_x /\ s.mom_y = t.mom_y

\* C1: after a valid construction and after every update_states call of a
\* sequence that keeps the density non-zero, p = rho * e_int * (gamma - 1)
\* and momentum = rho * velocity (per component in 2D).
C1_Consistent == (IsCell(cell) /\ Regular) => (IdealGas(cell) /\ MomentumIsRhoVelocity(cell))

\* a 2D cell, validly constructed, after two updates that changed its density,
\* its momentum and its pressure
C1_Witness ==
  /\ cell.dim = 2
  /\ Regular
  /\ nupd = 2
  /\ Updated
  /\ cell.rho # origin.rho
  /\ cell.mom_y # origin.mom_y
  /\ cell.p # origin.p

\* C2: an update_states call that ends normally leaves the total energy
\* density rho * e_int + e_kin equal to its value before the call plus e_flux,
\* with e_kin the kinetic energy of the new density and velocity and e_int the
\* residual (total - e_kin) / rho.
C2_EnergyConserved ==
  Updated =>
    LET e_tot == Add(TotalEnergy(call.pre), call.flux[4])
    IN  /\ TotalEnergy(cell) = e_tot
        /\ cell.e_kin = KineticEnergy(cell)
        /\ cell.e_int = Div(Sub(e_tot, cell.e_kin), cell.rho)

\* an update that changed density, kinetic energy and total energy
C2_Witness ==
  /\ Updated
  /\ call.flux[1] # Zero
  /\ call.flux[4] # Zero
  /\ cell.e_kin # call.pre.e_kin
  /\ TotalEnergy(cell) # TotalEnergy(call.pre)

\* C3: update_states with all fluxes zero, on a validly constructed cell or a
\* cell reached from one by updates, ends normally and leaves every field as
\* it was.
C3_NullUpdate ==
  (call.op = "update_states" /\ call.flux = ZeroFlux /\ Regular) =>
    (call.outcome = "ok" /\ cell = call.pre)

\* a null update of a moving cell that earlier updates had changed
C3_Witness ==
  /\ call.op = "update_states"
  /\ call.flux = ZeroFlux
  /\ Regular
  /\ nupd >= 2
  /\ cell # origin
  /\ cell.u # Zero

\* C4: update_states with zero density and momentum flux and a nonzero e_flux
\* leaves rho, velocity, momentum, e_kin and gamma unchanged, raises
\* rho * e_int + e_kin and rho * e_int by e_flux (so e_int by e_flux when
\* rho = 1) and raises p by e_flux * (gamma - 1).
C4_EnergyOnly ==
  ( /\ call.op = "update_states"
    /\ call.flux[1] = Zero /\ call.flux[2] = Zero /\ call.flux[3] = Zero
    /\ call.flux[4] # Zero
    /\ Regular ) =>
    LET pre    == call.pre
        e_flux == call.flux[4]
    IN  /\ call.outcome = "ok"
        /\ SameMechanics(cell, pre)
        /\ TotalEnergy(cell) = Add(TotalEnergy(pre), e_flux)
        /\ Mul(cell.rho, cell.e_int) = Add(Mul(pre.rho, pre.e_int), e_flux)
        /\ (cell.rho = One => cell.e_int = Add(pre.e_int, e_flux))
        /\ cell.p = Add(pre.p, Mul(e_flux, Sub(cell.gamma, One)))

\* the scenario of the specification: (p=1, rho=1, u=0, gamma=1.4) updated
\* with (0, 0, 0.1) has e_int 2.5 + 0.1 and p 1.04
C4_Witness ==
  /\ cell.dim = 1
  /\ Updated
  /\ nupd = 1
  /\ origin.p = One /\ origin.rho = One /\ origin.u = Zero
  /\ origin.gamma = Rat(7, 5)
  /\ call.flux = << Zero, Zero, Zero, Rat(1, 10) >>
  /\ cell.e_int = Rat(26, 10)
  /\ cell.p = Rat(104, 100)
  /\ cell.rho = One /\ cell.u = Zero

\* C5: a construction with density <= 0, pressure <= 0 or gamma <= 1 fails
\* (with InvalidStateError; any error is accepted here) and leaves no
\* instance; no constructed state has a non-positive density or pressure or
\* gamma <= 1.
C5_ConstructionValidated ==
  /\ call.op \in {"ThermodynamicState1D", "ThermodynamicState2D"} =>
       IF Le(call.density, Zero) \/ Le(call.pressure, Zero) \/ Le(call.gamma, One)
       THEN call.outcome # "ok" /\ cell = NoCell
       ELSE call.outcome = "ok" /\ IsCell(cell)
  /\ IsCell(origin) => ValidState(origin)

\* C6: update_states fails with InvalidStateError when the resulting density
\* is non-positive (any error is accepted here), so no call returns normally
\* with rho <= 0.  (Stated for validly constructed cells, which is enough to
\* decide it.)
C6_DensityValidated ==
  (call.op = "update_states" /\ ValidState(origin)) =>
    /\ Le(Add(call.pre.rho, call.flux[1]), Zero) => call.outcome # "ok"
    /\ call.outcome = "ok" => Lt(Zero, cell.rho)

\* C7: sound_speed fails with InvalidStateError when gamma * p / rho is
\* negative; it returns nothing then.  (Stated for validly constructed cells
\* whose density stayed positive: the pressure went negative by updates.)
C7_SoundSpeedGuarded ==
  (call.op = "sound_speed" /\ Regular /\ Lt(Zero, cell.rho) /\ Lt(Div(Mul(cell.gamma, cell.p), cell.rho), Zero)) =>
    (call.outcome = "InvalidStateError" /\ call.ret = "none")

\* the centre of mesh cell i (1-based): (i - 1/2) / 100
CellCentre(i) == Rat(2 * i - 1, 200)

\* C8: after a ShockTube1D construction the four field arrays have one entry
\* per mesh cell, and at every index the entries are left_state's rho, p, u and
\* e_int when the cell centre is strictly below membrane_location and
\* right_state's otherwise (a centre equal to the membrane included).
C8_PiecewiseConstant ==
  (call.op = "ShockTube1D" /\ call.outcome = "ok") =>
    /\ Len(tube.x) = N
    /\ DOMAIN tube.densities = 1..N
    /\ DOMAIN tube.pressures = 1..N
    /\ DOMAIN tube.vel_x = 1..N
    /\ DOMAIN tube.internal_energies = 1..N
    /\ \A i \in 1..N :
         LET side == IF Lt(CellCentre(i), call.membrane_location)
                     THEN call.left_state ELSE call.right_state
         IN  /\ tube.x[i] = CellCentre(i)
             /\ tube.densities[i] = side.rho
             /\ tube.pressures[i] = side.p
             /\ tube.vel_x[i] = side.u
             /\ tube.internal_energies[i] = side.e_int

\* the membrane at 0.305, the centre of cell 31: cells 1..30 hold an updated
\* left state, cell 31 holds the right state, which differs in every field
C8_Witness ==
  /\ call.op = "ShockTube1D"
  /\ call.outcome = "ok"
  /\ call.membrane_location = CellCentre(31)
  /\ nupd >= 1
  /\ call.left_state.rho # call.right_state.rho
  /\ call.left_state.p # call.right_state.p
  /\ call.left_state.u # call.right_state.u
  /\ call.left_state.e_int # call.right_state.e_int
  /\ tube.densities[30] = call.left_state.rho
  /\ tube.densities[31] = call.right_state.rho

\* C9: a ShockTube1D construction whose membrane_location or CFL is outside
\* (0,1), whose final_time is <= 0 or whose states differ in gamma fails and
\* leaves no instance; otherwise is_initialised is true with the mesh, the four
\* arrays, gamma and both boundary bindings in place.  (Stated for valid left
\* and right states.)
C9_AllOrNothing ==
  (call.op = "ShockTube1D" /\ ValidState(call.left_state) /\ ValidState(call.right_state)) =>
    IF \/ ~ (Lt(Zero, call.membrane_location) /\ Lt(call.membrane_location, One))
       \/ ~ (Lt(Zero, call.CFL) /\ Lt(call.CFL, One))
       \/ Le(call.final_time, Zero)
       \/ call.left_state.gamma # call.right_state.gamma
    THEN call.outcome # "ok" /\ tube = NoTube
    ELSE /\ call.outcome = "ok"
         /\ tube.is_initialised
         /\ Len(tube.x) = N
         /\ Len(tube.densities) = N
         /\ Len(tube.pressures) = N
         /\ Len(tube.vel_x) = N
         /\ Len(tube.internal_energies) = N
         /\ tube.gamma = call.left_state.gamma
         /\ DOMAIN tube.boundary_functions = {"X_LOW", "X_HIGH"}

\* C10: a sequence of update_states calls that keeps the density non-zero
\* leaves the cell in the state a single update_states call with the
\* component-wise sum of the fluxes gives the cell as constructed.
C10_UpdatesCompose ==
  (IsCell(cell) /\ ~ raised /\ nupd >= 2) =>
    LET r == IF cell.dim = 1
             THEN update_states_1D(origin, total[1], total[2], total[4])
             ELSE update_states_2D(origin, total[1], total[2], total[3], total[4])
    IN  r.outcome = "ok" /\ cell = r.state

\* two updates with different, non-zero effects on a valid 2D cell
C10_Witness ==
  /\ cell.dim = 2
  /\ Regular
  /\ nupd = 2
  /\ Updated
  /\ call.flux # ZeroFlux
  /\ total # call.flux
  /\ total[1] # Zero /\ total[2] # Zero /\ total[4] # Zero
  /\ cell # call.pre
  /\ call.pre # origin
====
